---------------------------- MODULE Spec2Model ----------------------------
(***************************************************************************)
(* A model of the option-pricing page: the two pricers (blackScholes,     *)
(* binomialTree), normalCdf, generateHeatmapData and the Home component's  *)
(* state (model, inputs, results, heatmapData) with its effect, for both   *)
(* page variants (v1 and v2).                                              *)
(*                                                                         *)
(* JavaScript numbers are modelled as decimal fixed-point values with six  *)
(* fractional digits: the number x is the integer x * SCALE.  The values   *)
(* NaN, Infinity, -Infinity and undefined are four integers outside the    *)
(* finite range.  Signed zeros are not distinguished.  A finite result     *)
(* beyond the finite range has no representation and stops the evaluation  *)
(* (OutOfRange): the inputs enumerated below stay inside the range.        *)
(***************************************************************************)
EXTENDS Integers, Sequences, FiniteSets, TLC


\* ------------------------------------------------------------------------
\* The number representation

Base == 10 * 10 * 10
SCALE == Base * Base
MaxFinite == 2 * Base * SCALE
Infinity == MaxFinite + 1
NegInfinity == -Infinity
NaN == MaxFinite + 2
undefined == MaxFinite + 3

OutOfRange == CHOOSE n \in {} : TRUE

IsFinite(x) == -MaxFinite <= x /\ x <= MaxFinite
IsNaN(x) == x = NaN \/ x = undefined
Fin(n) == IF -MaxFinite <= n /\ n <= MaxFinite THEN n ELSE OutOfRange

Abs(n) == IF n < 0 THEN -n ELSE n
Sgn(x) == IF x = Infinity THEN 1
          ELSE IF x = NegInfinity THEN -1
          ELSE IF x > 0 THEN 1 ELSE IF x < 0 THEN -1 ELSE 0

\* n / d rounded to the nearest integer (halves away from zero), d > 0
RoundDiv(n, d) == IF n >= 0 THEN (2 * n + d) \div (2 * d)
                  ELSE -((2 * (-n) + d) \div (2 * d))

\* the literal a.bcdefg... given as an integer count of 1/100 (two decimals)
Lit(c) == c * (SCALE \div 100)

Neg(x) == IF IsNaN(x) THEN NaN ELSE -x

Add(x, y) == IF IsFinite(x) /\ IsFinite(y) THEN Fin(x + y)
             ELSE IF IsNaN(x) \/ IsNaN(y) THEN NaN
             ELSE IF x = Infinity THEN (IF y = NegInfinity THEN NaN ELSE Infinity)
             ELSE IF x = NegInfinity THEN (IF y = Infinity THEN NaN ELSE NegInfinity)
             ELSE y

Sub(x, y) == Add(x, Neg(y))

\* |a| * |b| / SCALE without leaving 32 bits, rounded to nearest
\* with a = ah * Base + al and b = bh * Base + bl: hh = ah * bh,
\* m = ah * bl + al * bh, ll = al * bl
MulSum(hh, m, ll) ==
  hh + m \div Base + ((m % Base) * Base + ll + SCALE \div 2) \div SCALE

MulMag(a, b) ==
  MulSum((a \div Base) * (b \div Base),
         (a \div Base) * (b % Base) + (a % Base) * (b \div Base),
         (a % Base) * (b % Base))

Mul(x, y) == IF IsFinite(x) /\ IsFinite(y)
               THEN (IF x >= 0
                       THEN (IF y >= 0 THEN Fin(MulMag(x, y)) ELSE -Fin(MulMag(x, -y)))
                       ELSE (IF y >= 0 THEN -Fin(MulMag(-x, y)) ELSE Fin(MulMag(-x, -y))))
             ELSE IF IsNaN(x) \/ IsNaN(y) THEN NaN
             ELSE IF x = 0 \/ y = 0 THEN NaN
             ELSE IF Sgn(x) * Sgn(y) > 0 THEN Infinity ELSE NegInfinity

\* long division: acc is the quotient so far, r the remainder, k digits to go
RECURSIVE LongDiv(_, _, _, _)
LongDiv(acc, r, b, k) ==
  IF k = 0 THEN acc + (IF 2 * r >= b THEN 1 ELSE 0)
  ELSE LongDiv(acc * 10 + (r * 10) \div b, (r * 10) % b, b, k - 1)

\* |a| * SCALE / |b|, b > 0, rounded to nearest
\* the same in two steps of three digits, for b <= 2 * SCALE
DivStep2(q, r2, b) == q * Base + r2 \div b + (IF 2 * (r2 % b) >= b THEN 1 ELSE 0)
DivStep1(q, r1, b) == DivStep2(q * Base + r1 \div b, (r1 % b) * Base, b)

RECURSIVE DivMag(_, _)
DivMag(a, b) ==
  IF b > 200 * SCALE THEN DivMag(a \div 10, b \div 10)
  ELSE IF b <= 2 * SCALE THEN DivStep1(a \div b, (a % b) * Base, b)
  ELSE LongDiv(a \div b, a % b, b, 6)

Div(x, y) == IF IsFinite(x) /\ IsFinite(y)
               THEN (IF y = 0
                       THEN (IF x = 0 THEN NaN
                             ELSE IF x > 0 THEN Infinity ELSE NegInfinity)
                     ELSE IF x >= 0
                       THEN (IF y > 0 THEN Fin(DivMag(x, y)) ELSE -Fin(DivMag(x, -y)))
                       ELSE (IF y > 0 THEN -Fin(DivMag(-x, y)) ELSE Fin(DivMag(-x, -y))))
             ELSE IF IsNaN(x) \/ IsNaN(y) THEN NaN
             ELSE IF ~IsFinite(x)
               THEN (IF ~IsFinite(y) THEN NaN
                     ELSE IF (Sgn(x) > 0) = (y >= 0) THEN Infinity ELSE NegInfinity)
             ELSE 0

\* the comparisons of JavaScript: false as soon as an operand is NaN
Lt(x, y) == ~IsNaN(x) /\ ~IsNaN(y) /\ x < y
Le(x, y) == ~IsNaN(x) /\ ~IsNaN(y) /\ x <= y
Ge(x, y) == Le(y, x)
Gt(x, y) == Lt(y, x)

\* Math.max(a, b): NaN as soon as an argument is NaN (undefined converts to NaN)
MathMax(x, y) == IF IsNaN(x) \/ IsNaN(y) THEN NaN ELSE IF x >= y THEN x ELSE y


\* ------------------------------------------------------------------------
\* The Math library and mathjs's erf

LN2 == 693147 + 0

Pow2(k) == 2 ^ k

\* e^r for |r| <= ln(2)/2 by its Taylor series; term is r^(n-1)/(n-1)!
RECURSIVE ExpSeries(_, _, _, _)
ExpSeries(r, term, n, acc) ==
  IF term = 0 THEN acc
  ELSE ExpSeries(r, RoundDiv(Mul(term, r), n), n + 1, acc + term)

\* e * 2^k
ExpScale(e, k) ==
  IF k >= 0 THEN Fin(IF k > 11 THEN OutOfRange ELSE e * Pow2(k))
  ELSE RoundDiv(e, Pow2(-k))

\* e^x = 2^k * e^(x - k ln 2), k the integer nearest to x / ln 2
ExpReduced(x, k) == ExpScale(ExpSeries(x - k * LN2, SCALE, 1, 0), k)

\* Math.exp
MathExp(x) ==
  IF IsNaN(x) THEN NaN
  ELSE IF x = Infinity THEN Infinity
  ELSE IF x = NegInfinity THEN 0
  ELSE IF x = 0 THEN SCALE
  ELSE IF x < -20 * SCALE THEN 0
  ELSE ExpReduced(x, (2 * x + LN2) \div (2 * LN2))

\* 2 * (z + z^3/3 + z^5/5 + ...): pw is z^n
RECURSIVE AtanhSeries(_, _, _, _)
AtanhSeries(z2, pw, n, acc) ==
  IF pw = 0 THEN 2 * acc
  ELSE AtanhSeries(z2, Mul(pw, z2), n + 2, acc + RoundDiv(pw, n))

\* ln(m * 2^k) = k ln 2 + 2 atanh(z), z = (m - 1) / (m + 1)
LnSeries(z, k) == k * LN2 + AtanhSeries(Mul(z, z), z, 1, 0)

\* ln(x) for finite x > 0: x is brought into [0.7, 1.41) by halving and doubling
RECURSIVE LnPos(_, _)
LnPos(x, k) ==
  IF x >= 1414214 THEN LnPos(RoundDiv(x, 2), k + 1)
  ELSE IF x < 707107 THEN LnPos(2 * x, k - 1)
  ELSE LnSeries(Div(x - SCALE, x + SCALE), k)

\* Math.log
MathLog(x) ==
  IF IsNaN(x) THEN NaN
  ELSE IF x = Infinity THEN Infinity
  ELSE IF x < 0 THEN NaN
  ELSE IF x = 0 THEN NegInfinity
  ELSE LnPos(x, 0)

\* the integer square root of n >= 0 by bisection on [lo, hi)
RECURSIVE ISqrt(_, _, _)
ISqrt(n, lo, hi) ==
  IF hi - lo <= 1 THEN lo
  ELSE IF ((lo + hi) \div 2) * ((lo + hi) \div 2) <= n
    THEN ISqrt(n, (lo + hi) \div 2, hi)
  ELSE ISqrt(n, lo, (lo + hi) \div 2)

RECURSIVE Newton(_, _, _)
Newton(x, y, k) ==
  IF k = 0 THEN y ELSE Newton(x, RoundDiv(y + Div(x, y), 2), k - 1)

\* Math.sqrt
MathSqrt(x) ==
  IF IsNaN(x) THEN NaN
  ELSE IF x = Infinity THEN Infinity
  ELSE IF x < 0 THEN NaN
  ELSE IF x = 0 THEN 0
  ELSE Newton(x, (ISqrt(x, 0, 46341) + 1) * Base, 3)

\* Math.pow(x, n) for an integer exponent n >= 0 (the lattice's N - i and i)
Square(h) == Mul(h, h)

RECURSIVE MathPow(_, _)
MathPow(x, n) ==
  IF n = 0 THEN SCALE
  ELSE IF n % 2 = 1 THEN Mul(x, MathPow(x, n - 1))
  ELSE Square(MathPow(x, n \div 2))

\* mathjs erf: odd, erf(+-Infinity) = +-1; for finite x the approximation
\* 1 - (a1 t + ... + a5 t^5) e^(-x^2), t = 1 / (1 + p x)  (error < 1.5e-7)
ErfPoly(t) ==
  Mul(t, 254830 + Mul(t, -284497 + Mul(t, 1421414
           + Mul(t, -1453152 + Mul(t, 1061405)))))

ErfPos(x) ==
  SCALE - Mul(ErfPoly(Div(SCALE, SCALE + Mul(327591, x))), MathExp(Neg(Mul(x, x))))

erf(x) ==
  IF IsNaN(x) THEN NaN
  ELSE IF x = Infinity THEN SCALE
  ELSE IF x = NegInfinity THEN -SCALE
  ELSE IF x = 0 THEN 0
  ELSE IF x > 0 THEN (IF x > 6 * SCALE THEN SCALE ELSE ErfPos(x))
  ELSE (IF x < -6 * SCALE THEN -SCALE ELSE -ErfPos(-x))

SQRT2 == MathSqrt(2 * SCALE)

\* Normal CDF for Black-Scholes
\* a faulty normalCdf that leaves out the division by the square root of 2
normalCdfUnscaled(x) == Div(Add(SCALE, erf(x)), 2 * SCALE)

normalCdf(x) == Div(Add(SCALE, erf(Div(x, SQRT2))), 2 * SCALE)


\* ------------------------------------------------------------------------
\* The pricers

\* a faulty return with d1 and d2 exchanged in the put
blackScholesPricesPutExchanged(Sq, Kr, d1, d2) ==
  [callPrice |-> Sub(Mul(Sq, normalCdf(d1)), Mul(Kr, normalCdf(d2))),
   putPrice |-> Sub(Mul(Kr, normalCdf(Neg(d1))), Mul(Sq, normalCdf(Neg(d2))))]

\* return { callPrice, putPrice } from the discounted spot S e^(-qT), the
\* discounted strike K e^(-rT), d1 and d2
blackScholesPrices(Sq, Kr, d1, d2) ==
  [callPrice |-> Sub(Mul(Sq, normalCdf(d1)), Mul(Kr, normalCdf(d2))),
   putPrice |-> Sub(Mul(Kr, normalCdf(Neg(d2))), Mul(Sq, normalCdf(Neg(d1))))]

\* const d2 = d1 - sigma * Math.sqrt(T)
blackScholesD2(S, K, T, r, q, d1, sigmaSqrtT) ==
  blackScholesPrices(Mul(S, MathExp(Mul(Neg(q), T))),
                     Mul(K, MathExp(Mul(Neg(r), T))),
                     d1, Sub(d1, sigmaSqrtT))

\* const d1 = (Math.log(S / K) + (r - q + 0.5 * sigma * sigma) * T)
\*              / (sigma * Math.sqrt(T))
blackScholesD1(S, K, T, r, sigma, q, sigmaSqrtT) ==
  blackScholesD2(S, K, T, r, q,
                 Div(Add(MathLog(Div(S, K)),
                         Mul(Add(Sub(r, q), Mul(Mul(SCALE \div 2, sigma), sigma)), T)),
                     sigmaSqrtT),
                 sigmaSqrtT)

\* Black-Scholes Model Function
blackScholes(S, K, T, r, sigma, q) ==
  blackScholesD1(S, K, T, r, sigma, q, Mul(sigma, MathSqrt(T)))

\* the number of passes of "for (let i = 0; i <= N; i++)": N is an integer or NaN
LoopCount(N) == IF Le(0, N) THEN N \div SCALE + 1 ELSE 0

\* a faulty payoff that is not floored at 0
PayoffUnfloored(optionType, price, K) ==
  IF optionType = "call" THEN Sub(price, K) ELSE Sub(K, price)

\* the terminal payoff of one node
Payoff(optionType, price, K) ==
  IF optionType = "call" THEN MathMax(0, Sub(price, K)) ELSE MathMax(0, Sub(K, price))

\* a faulty node update with the weights of the two successors exchanged
NodeUpdateExchanged(optionPrices, i, disc, p) ==
  [optionPrices EXCEPT ![i] =
     Mul(disc, Add(Mul(Sub(SCALE, p), optionPrices[i]), Mul(p, optionPrices[i + 1])))]

\* one node update of the backward induction, in place
NodeUpdate(optionPrices, i, disc, p) ==
  [optionPrices EXCEPT ![i] =
     Mul(disc, Add(Mul(p, optionPrices[i]), Mul(Sub(SCALE, p), optionPrices[i + 1])))]

\* for (let i = 0; i <= j; i++) at step j
RECURSIVE InnerLoop(_, _, _, _, _)
InnerLoop(optionPrices, i, j, disc, p) ==
  IF i > j THEN optionPrices
  ELSE InnerLoop(NodeUpdate(optionPrices, i, disc, p), i + 1, j, disc, p)

\* for (let j = N - 1; j >= 0; j--)
RECURSIVE OuterLoop(_, _, _, _)
OuterLoop(optionPrices, j, disc, p) ==
  IF j < 0 THEN optionPrices
  ELSE OuterLoop(InnerLoop(optionPrices, 0, j, disc, p), j - 1, disc, p)

\* const u = Math.exp(sigma * Math.sqrt(dt))
UpFactor(sigma, dt) == MathExp(Mul(sigma, MathSqrt(dt)))

\* const p = (Math.exp((r - q) * dt) - d) / (u - d)
UpProbability(r, q, dt, u, d) == Div(Sub(MathExp(Mul(Sub(r, q), dt)), d), Sub(u, d))

\* Math.exp(-r * dt)
Discount(r, dt) == MathExp(Mul(Neg(r), dt))

\* prices[i] = S * Math.pow(u, N - i) * Math.pow(d, i), N = n
TerminalPrice(S, u, d, n, i) == Mul(Mul(S, MathPow(u, n - i)), MathPow(d, i))

\* the backward induction over the terminal payoffs of the n + 1 nodes
\* S u^(n-i) d^i, i = 0..n; return optionPrices[0]
binomialTreeInduction(S, K, n, optionType, u, d, p, disc) ==
  IF n < 0 THEN undefined
  ELSE OuterLoop([i \in 0..n |-> Payoff(optionType, TerminalPrice(S, u, d, n, i), K)],
                 n - 1, disc, p)[0]

\* const d = 1 / u; const p = (Math.exp((r - q) * dt) - d) / (u - d)
binomialTreeP(S, K, r, q, n, optionType, dt, u, d) ==
  binomialTreeInduction(S, K, n, optionType, u, d,
                        UpProbability(r, q, dt, u, d), Discount(r, dt))

\* const u = Math.exp(sigma * Math.sqrt(dt))
binomialTreeU(S, K, r, q, n, optionType, dt, u) ==
  binomialTreeP(S, K, r, q, n, optionType, dt, u, Div(SCALE, u))

binomialTreeDt(S, K, r, sigma, q, n, optionType, dt) ==
  binomialTreeU(S, K, r, q, n, optionType, dt, UpFactor(sigma, dt))

\* Binomial Tree Model Function; const dt = T / N
binomialTree(S, K, T, r, sigma, q, N, optionType) ==
  binomialTreeDt(S, K, r, sigma, q, LoopCount(N) - 1, optionType, Div(T, N))

\* ------------------------------------------------------------------------
\* Function to generate heatmap data

\* x.toFixed(2): the decimal string of x rounded to two fractional digits
\* (halves away from zero): a sign, the integer digits and the two fraction
\* digits, or the text "NaN", "Infinity" or "-Infinity"
Digits(neg, hundredths) ==
  [text |-> "digits", neg |-> neg, int |-> hundredths \div 100, frac |-> hundredths % 100]

\* a faulty toFixed(2) that cuts the digits off instead of rounding
toFixed2Truncating(x) ==
  IF IsFinite(x) THEN Digits(x < 0, Abs(x) \div (SCALE \div 100))
  ELSE [text |-> IF IsNaN(x) THEN "NaN" ELSE IF x > 0 THEN "Infinity" ELSE "-Infinity",
        neg |-> FALSE, int |-> 0, frac |-> 0]

toFixed2(x) ==
  IF IsFinite(x) THEN Digits(x < 0, RoundDiv(Abs(x), SCALE \div 100))
  ELSE [text |-> IF IsNaN(x) THEN "NaN" ELSE IF x > 0 THEN "Infinity" ELSE "-Infinity",
        neg |-> FALSE, int |-> 0, frac |-> 0]

\* Number(s) of a string produced by toFixed(2)
Number(s) ==
  IF s.text = "NaN" THEN NaN
  ELSE IF s.text = "Infinity" THEN Infinity
  ELSE IF s.text = "-Infinity" THEN NegInfinity
  ELSE (IF s.neg THEN -1 ELSE 1) * (s.int * SCALE + s.frac * (SCALE \div 100))

\* a faulty volatility argument that is not floored at 0
VolArgV2Unfloored(vol) == vol

\* the volatility argument generateHeatmapData passes to a pricer
VolArgV2(vol) == MathMax(vol, 0)
VolArgV1(vol) == vol

\* callRow.push(Math.max(callPrice, 0)); putRow.push(Math.max(putPrice, 0))
PushV2(callPrice, putPrice) ==
  [callPrice |-> MathMax(callPrice, 0), putPrice |-> MathMax(putPrice, 0)]

\* const { callPrice, putPrice } = blackScholes(...), then the two pushes
PushBlackScholesV2(bs) == PushV2(bs.callPrice, bs.putPrice)

\* one cell of the sweep in v2: { callPrice, putPrice } as pushed onto the rows
CellV2(model, inputs, strike, vol) ==
  IF model = "Black-Scholes" THEN
    PushBlackScholesV2(blackScholes(inputs.S, strike, inputs.T, inputs.r,
                                    VolArgV2(vol), inputs.q))
  ELSE
    PushV2(binomialTree(inputs.S, strike, inputs.T, inputs.r,
                        VolArgV2(vol), inputs.q, inputs.N, "call"),
           binomialTree(inputs.S, strike, inputs.T, inputs.r,
                        VolArgV2(vol), inputs.q, inputs.N, "put"))

\* one cell of the sweep in v1
CellV1(model, inputs, strike, vol) ==
  IF model = "Black-Scholes" THEN
    blackScholes(inputs.S, strike, inputs.T, inputs.r, VolArgV1(vol), inputs.q)
  ELSE
    [callPrice |-> binomialTree(inputs.S, strike, inputs.T, inputs.r,
                                VolArgV1(vol), inputs.q, inputs.N, "call"),
     putPrice |-> binomialTree(inputs.S, strike, inputs.T, inputs.r,
                               VolArgV1(vol), inputs.q, inputs.N, "put")]

Cell(variant, model, inputs, strike, vol) ==
  IF variant = "v2" THEN CellV2(model, inputs, strike, vol)
  ELSE CellV1(model, inputs, strike, vol)

\* the rows as pushed: callData[i][j] and putData[i][j] from the cell records
Rows(cells) ==
  [callData |-> [i \in 1..Len(cells) |->
                  [j \in 1..Len(cells[i]) |-> cells[i][j].callPrice]],
   putData |-> [i \in 1..Len(cells) |->
                 [j \in 1..Len(cells[i]) |-> cells[i][j].putPrice]]]

\* a faulty sweep with the loops exchanged: rows by strike, columns by volatility
generateHeatmapDataTransposed(variant, model, inputs, strikePrices, volatilities) ==
  Rows([j \in 1..Len(strikePrices) |->
         [i \in 1..Len(volatilities) |->
           Cell(variant, model, inputs, strikePrices[j], volatilities[i])]
         \o << >>] \o << >>)

\* The nested loops: row i is the pass of the outer loop for volatilities[i],
\* entry j of a row the pass of the inner loop for strikePrices[j]; array index
\* k is position k + 1 of a sequence.  A model that is neither pricer pushes
\* nothing onto the rows.  (\o << >> leaves a sequence as it is.)
generateHeatmapData(variant, model, inputs, strikePrices, volatilities) ==
  Rows([i \in 1..Len(volatilities) |->
         [j \in (IF model \in {"Black-Scholes", "Binomial Tree"}
                 THEN 1..Len(strikePrices) ELSE {}) |->
           Cell(variant, model, inputs, strikePrices[j], volatilities[i])]
         \o << >>] \o << >>)

\* ------------------------------------------------------------------------
\* The Home component

VARIABLES
  variant,       \* which page runs: "v1" or "v2"
  model,         \* useState("Black-Scholes")
  inputs,        \* useState({S, K_min, K_max, K_specific, T, r, sigma, q, N})
  results,       \* useState({}): callPrice and putPrice, undefined at first
  heatmapData,   \* useState({callData, putData})
  strikePrices,  \* the strike axis the last effect handed to generateHeatmapData
  volatilities,  \* the volatility axis the last effect handed to it
  sigmaArgs,     \* the volatility arguments of the last effect's pricer calls
  pending,       \* the cells <<i, j>> a sweep in progress has yet to evaluate
  tree,          \* the local variables of a binomialTree call in progress
  pc             \* "effect": rendered, the effect is due; "idle": it has run

vars == <<variant, model, inputs, results, heatmapData, strikePrices,
          volatilities, sigmaArgs, pending, tree, pc>>

\* no call of binomialTree is in progress
NoTree == [optionType |-> "none"]

Variants == {"v1", "v2"}
Models == {"Black-Scholes", "Binomial Tree"}
Keys == {"S", "K_min", "K_max", "K_specific", "T", "r", "sigma", "q", "N"}

\* Array.from({ length: 10 }, ...)
AxisLength == 10

\* the lattice is checked with up to MaxN steps, and the page starts with
\* N = InitN steps (100 in the source: 5050 node updates per lattice call,
\* 202 calls per effect)
MaxN == 2
InitN == 2

\* at most MaxEdits input fields differ from their initial values at a time
MaxEdits == 1

InitialInputs ==
  [S |-> Lit(10042), K_min |-> Lit(8000), K_max |-> Lit(12000),
   K_specific |-> Lit(9345), T |-> Lit(100), r |-> Lit(5), sigma |-> Lit(20),
   q |-> Lit(0), N |-> InitN * SCALE]

\* parseFloat(e.target.value) for the texts typed into each field; the text of
\* a cleared field parses to NaN
Typed ==
  [S |-> {Lit(10042), Lit(0), NaN},
   K_min |-> {Lit(8000), Lit(9000)},
   K_max |-> {Lit(12000), NaN},
   K_specific |-> {Lit(9345), Lit(9333), Lit(8000), Lit(0)},
   T |-> {Lit(100), Lit(50), Lit(0)},
   r |-> {Lit(5), Lit(50)},
   sigma |-> {Lit(20), Lit(10), Lit(5), Lit(0), Lit(-10), NaN},
   q |-> {Lit(0), Lit(3)},
   N |-> {k * SCALE : k \in 0..MaxN} \cup {InitN * SCALE, -SCALE, NaN}]

Edits(in) == Cardinality({k \in Keys : in[k] # InitialInputs[k]})

\* const strikePrices = Array.from({ length: 10 }, (_, i) =>
\*   (inputs.K_min + i * (inputs.K_max - inputs.K_min) / 9).toFixed(2))
StrikeLabels(in) ==
  [j \in 1..AxisLength |->
    toFixed2(Add(in.K_min,
                 Div(Mul((j - 1) * SCALE, Sub(in.K_max, in.K_min)),
                     (AxisLength - 1) * SCALE)))]

\* element i of Array.from(...) before .reverse(), i = 0..9
VolLabelV2(in, i) == toFixed2(MathMax(Add(Sub(in.sigma, Lit(10)), Mul(i * SCALE, Lit(2))), 0))
VolLabelV1(in, i) == toFixed2(Add(Sub(in.sigma, Lit(10)), Mul(i * SCALE, Lit(2))))

\* const volatilities = Array.from({ length: 10 }, ...).reverse()
VolLabels(v, in) ==
  [k \in 1..AxisLength |->
    IF v = "v2" THEN VolLabelV2(in, AxisLength - k) ELSE VolLabelV1(in, AxisLength - k)]

\* strikePrices.map(Number), volatilities.map(Number)
MapNumber(labels) == [k \in 1..Len(labels) |-> Number(labels[k])]

\* the volatility argument of the effect's own pricer calls
PointSigma(v, in) == IF v = "v2" THEN MathMax(in.sigma, 0) ELSE in.sigma

\* the first half of the effect: the point price handed to setResults
\* a faulty setResults with the two prices exchanged
SetResultsSwapped(callPrice, putPrice) ==
  [callPrice |-> MathMax(putPrice, 0), putPrice |-> MathMax(callPrice, 0)]

SetResultsV2(callPrice, putPrice) ==
  [callPrice |-> MathMax(callPrice, 0), putPrice |-> MathMax(putPrice, 0)]

SetResultsBlackScholesV2(bs) == SetResultsV2(bs.callPrice, bs.putPrice)

PointV2(m, in, old) ==
  IF m = "Black-Scholes" THEN
    SetResultsBlackScholesV2(blackScholes(in.S, in.K_specific, in.T, in.r,
                                          PointSigma("v2", in), in.q))
  ELSE IF m = "Binomial Tree" THEN
    SetResultsV2(binomialTree(in.S, in.K_specific, in.T, in.r,
                              PointSigma("v2", in), in.q, in.N, "call"),
                 binomialTree(in.S, in.K_specific, in.T, in.r,
                              PointSigma("v2", in), in.q, in.N, "put"))
  ELSE old

\* a faulty effect that keeps a point result once it has one
PointV1Cached(m, in, old) ==
  IF IsFinite(old.callPrice) THEN old
  ELSE IF m = "Black-Scholes" THEN
    blackScholes(in.S, in.K_specific, in.T, in.r, PointSigma("v1", in), in.q)
  ELSE
    [callPrice |-> binomialTree(in.S, in.K_specific, in.T, in.r,
                                PointSigma("v1", in), in.q, in.N, "call"),
     putPrice |-> binomialTree(in.S, in.K_specific, in.T, in.r,
                               PointSigma("v1", in), in.q, in.N, "put")]

PointV1(m, in, old) ==
  IF m = "Black-Scholes" THEN
    blackScholes(in.S, in.K_specific, in.T, in.r, PointSigma("v1", in), in.q)
  ELSE IF m = "Binomial Tree" THEN
    [callPrice |-> binomialTree(in.S, in.K_specific, in.T, in.r,
                                PointSigma("v1", in), in.q, in.N, "call"),
     putPrice |-> binomialTree(in.S, in.K_specific, in.T, in.r,
                               PointSigma("v1", in), in.q, in.N, "put")]
  ELSE old

Init ==
  /\ variant \in Variants
  /\ model = "Black-Scholes"
  /\ inputs = InitialInputs
  /\ results = [callPrice |-> undefined, putPrice |-> undefined]
  /\ heatmapData =
       IF variant = "v2" THEN [callData |-> << >>, putData |-> << >>]
       ELSE [callData |-> [i \in 1..10 |-> [j \in 1..10 |-> 0]],
             putData |-> [i \in 1..10 |-> [j \in 1..10 |-> 0]]]
  /\ strikePrices = << >>
  /\ volatilities = << >>
  /\ sigmaArgs = {}
  /\ pending = {}
  /\ tree = NoTree
  /\ pc = "effect"

\* <select onChange={(e) => setModel(e.target.value)}>: the event of choosing
\* the other option
SetModel(m) ==
  /\ pc = "idle"
  /\ m # model
  /\ model' = m
  /\ pc' = "effect"
  /\ UNCHANGED <<tree, variant, inputs, results, heatmapData, strikePrices,
                 volatilities, sigmaArgs, pending>>

\* <input onChange>: setInputs((prev) => ({...prev, [key]: parseFloat(value)}));
\* the field N is disabled while the model is Black-Scholes
SetInputs(key, value) ==
  /\ pc = "idle"
  /\ ~(model = "Black-Scholes" /\ key = "N")
  /\ Edits([inputs EXCEPT ![key] = value]) <= MaxEdits
  /\ inputs' = [inputs EXCEPT ![key] = value]
  /\ pc' = "effect"
  /\ UNCHANGED <<tree, variant, model, results, heatmapData, strikePrices,
                 volatilities, sigmaArgs, pending>>

\* useEffect(() => {...}, [model, inputs])
Effect ==
  /\ pc = "effect"
  /\ results' = IF variant = "v2" THEN PointV2(model, inputs, results)
                ELSE PointV1(model, inputs, results)
  /\ \E strikes \in {MapNumber(StrikeLabels(inputs))} :
       \E vols \in {MapNumber(VolLabels(variant, inputs))} :
         /\ strikePrices' = strikes
         /\ volatilities' = vols
         /\ heatmapData' = generateHeatmapData(variant, model, inputs, strikes, vols)
         /\ sigmaArgs' = {PointSigma(variant, inputs)}
                           \cup {IF variant = "v2" THEN VolArgV2(vols[i])
                                 ELSE VolArgV1(vols[i]) : i \in 1..AxisLength}
  /\ pc' = "idle"
  /\ UNCHANGED <<tree, variant, model, inputs, pending>>

Next ==
  \/ \E m \in Models : SetModel(m)
  \/ \E key \in Keys : \E value \in Typed[key] : SetInputs(key, value)
  \/ Effect

Spec == Init /\ [][Next]_vars

\* ------------------------------------------------------------------------
\* The pricers called directly.  The arguments of the call are the fields of
\* inputs (K is inputs.K_specific), model names the pricer that is called, and
\* results holds what it returned: { callPrice, putPrice } of blackScholes, the
\* returns of binomialTree for "call" and for "put".

PricerArgs ==
  [S : {Lit(10000), Lit(10042)},
   K_min : {Lit(8000)},
   K_max : {Lit(12000)},
   K_specific : {Lit(8000), Lit(9345), Lit(10000), Lit(12000)},
   T : {Lit(100), Lit(50)},
   r : {Lit(5), Lit(50), Lit(0)},
   sigma : {Lit(20), Lit(10), Lit(0)},
   q : {Lit(0), Lit(3)},
   N : {k * SCALE : k \in 1..MaxN}]

InitPricers ==
  /\ variant = "v2"
  /\ model \in Models
  /\ inputs \in PricerArgs
  /\ results = [callPrice |-> undefined, putPrice |-> undefined]
  /\ heatmapData = [callData |-> << >>, putData |-> << >>]
  /\ strikePrices = << >>
  /\ volatilities = << >>
  /\ sigmaArgs = {}
  /\ pending = {}
  /\ tree = NoTree
  /\ pc = "call"

CallBlackScholes ==
  /\ pc = "call"
  /\ model = "Black-Scholes"
  /\ results' = blackScholes(inputs.S, inputs.K_specific, inputs.T, inputs.r,
                             inputs.sigma, inputs.q)
  /\ pc' = "returned"
  /\ UNCHANGED <<tree, variant, model, inputs, heatmapData, strikePrices, volatilities,
                 sigmaArgs, pending>>

CallBinomialTree ==
  /\ pc = "call"
  /\ model = "Binomial Tree"
  /\ results' = [callPrice |-> binomialTree(inputs.S, inputs.K_specific, inputs.T,
                                            inputs.r, inputs.sigma, inputs.q,
                                            inputs.N, "call"),
                 putPrice |-> binomialTree(inputs.S, inputs.K_specific, inputs.T,
                                           inputs.r, inputs.sigma, inputs.q,
                                           inputs.N, "put")]
  /\ pc' = "returned"
  /\ UNCHANGED <<tree, variant, model, inputs, heatmapData, strikePrices, volatilities,
                 sigmaArgs, pending>>

NextPricers == CallBlackScholes \/ CallBinomialTree

SpecPricers == InitPricers /\ [][NextPricers]_vars

\* ------------------------------------------------------------------------
\* generateHeatmapData called directly on axes of any length, and its sweep
\* taken one cell at a time in any order.

\* the axes are the sequences of at most MaxAxis elements
MaxAxis == 2

Axes(values) == UNION {[1..k -> values] : k \in 0..MaxAxis}

SweepInputs ==
  {[InitialInputs EXCEPT !.N = SCALE],
   [InitialInputs EXCEPT !.r = Lit(50), !.sigma = Lit(10), !.N = SCALE]}

\* the matrices before any cell is placed
Blank(rows, cols) ==
  [callData |-> [i \in 1..rows |-> [j \in 1..cols |-> undefined]],
   putData |-> [i \in 1..rows |-> [j \in 1..cols |-> undefined]]]

\* the number of cells collected so far
Collected == Len(volatilities) * Len(strikePrices) - Cardinality(pending)

\* a faulty collection that pushes each result behind the ones collected so far
PlacePushed(data, i, j, cell) ==
  [callData |-> [data.callData EXCEPT
     ![(Collected \div Len(strikePrices)) + 1][(Collected % Len(strikePrices)) + 1] =
        cell.callPrice],
   putData |-> [data.putData EXCEPT
     ![(Collected \div Len(strikePrices)) + 1][(Collected % Len(strikePrices)) + 1] =
        cell.putPrice]]

\* the result of a cell put at row i, column j of the matrices
Place(data, i, j, cell) ==
  [callData |-> [data.callData EXCEPT ![i][j] = cell.callPrice],
   putData |-> [data.putData EXCEPT ![i][j] = cell.putPrice]]

InitSweep ==
  /\ variant \in Variants
  /\ model \in Models
  /\ inputs \in SweepInputs
  /\ results = [callPrice |-> undefined, putPrice |-> undefined]
  /\ strikePrices \in Axes({Lit(8000), Lit(12000)})
  /\ volatilities \in Axes({Lit(20), Lit(0), Lit(-5)})
  /\ heatmapData = Blank(Len(volatilities), Len(strikePrices))
  /\ sigmaArgs = {}
  /\ pending = (1..Len(volatilities)) \X (1..Len(strikePrices))
  /\ tree = NoTree
  /\ pc = "sweep"

\* the call generateHeatmapData(model, inputs, strikePrices, volatilities)
CallGenerateHeatmapData ==
  /\ pc = "sweep"
  /\ pending = (1..Len(volatilities)) \X (1..Len(strikePrices))
  /\ heatmapData' = generateHeatmapData(variant, model, inputs, strikePrices,
                                        volatilities)
  /\ pending' = {}
  /\ pc' = "returned"
  /\ UNCHANGED <<tree, variant, model, inputs, results, strikePrices, volatilities,
                 sigmaArgs>>

\* one pass of the inner loop's body, for any cell that is still to do
SweepCell(i, j) ==
  /\ pc = "sweep"
  /\ <<i, j>> \in pending
  /\ heatmapData' = Place(heatmapData, i, j,
                          Cell(variant, model, inputs, strikePrices[j],
                               volatilities[i]))
  /\ pending' = pending \ {<<i, j>>}
  /\ pc' = IF pending' = {} THEN "collected" ELSE "sweep"
  /\ UNCHANGED <<tree, variant, model, inputs, results, strikePrices, volatilities,
                 sigmaArgs>>

NextSweep ==
  \/ CallGenerateHeatmapData
  \/ \E i \in 1..MaxAxis : \E j \in 1..MaxAxis : SweepCell(i, j)

SpecSweep == InitSweep /\ [][NextSweep]_vars

\* ------------------------------------------------------------------------
\* What a render hands to the heatmap component, computed from the inputs of
\* that render: x / xLabels and y / yLabels; z / data is heatmapData.

\* x: Array.from({ length: 10 }, (_, i) =>
\*      (inputs.K_min + i * (inputs.K_max - inputs.K_min) / 9).toFixed(2))
PlotX(in) ==
  [j \in 1..AxisLength |->
    toFixed2(Add(in.K_min,
                 Div(Mul((j - 1) * SCALE, Sub(in.K_max, in.K_min)),
                     (AxisLength - 1) * SCALE)))]

\* element i of the array of y before .reverse(); v1 has no Math.max
PlotYElement(v, in, i) ==
  IF v = "v2"
  THEN toFixed2(MathMax(Add(Sub(in.sigma, Lit(10)), Mul(i * SCALE, Lit(2))), 0))
  ELSE toFixed2(Add(Sub(in.sigma, Lit(10)), Mul(i * SCALE, Lit(2))))

\* y: Array.from({ length: 10 }, ...).reverse()
PlotY(v, in) == [k \in 1..AxisLength |-> PlotYElement(v, in, AxisLength - k)]

\* ------------------------------------------------------------------------
\* binomialTree taken one statement at a time.  The arguments of the call are
\* the fields of inputs (K is inputs.K_specific) and tree.optionType; tree
\* holds the locals; the value returned is stored in results under the option
\* type.  N is a whole number or NaN; updates counts the executions of the
\* node update.

\* the whole number from which a loop counter no longer counts: i + 1 is
\* rounded back to i (2^53 for the numbers of the code)
MaxExact == 4

\* i++ of a loop counter
Increment(i) == IF i >= MaxExact THEN i ELSE i + 1

\* a step count the field takes that is beyond the exact whole numbers,
\* such as 1e300
Huge == (MaxExact + 1) * SCALE

LatticeArgs ==
  [S : {Lit(10000), Lit(10042)},
   K_min : {Lit(8000)},
   K_max : {Lit(12000)},
   K_specific : {Lit(9345), Lit(10000), Lit(12000)},
   T : {Lit(100), Lit(50)},
   r : {Lit(5), Lit(50)},
   sigma : {Lit(20), Lit(10), Lit(0)},
   q : {Lit(0)},
   N : {k * SCALE : k \in 0..MaxN} \cup {-SCALE, NaN, Huge}]

InitLattice ==
  /\ variant = "v2"
  /\ model = "Binomial Tree"
  /\ inputs \in LatticeArgs
  /\ results = [callPrice |-> undefined, putPrice |-> undefined]
  /\ heatmapData = [callData |-> << >>, putData |-> << >>]
  /\ strikePrices = << >>
  /\ volatilities = << >>
  /\ sigmaArgs = {}
  /\ pending = {}
  /\ tree = NoTree
  /\ pc = "call"

\* the locals after "const p = ...; let prices: number[] = []"
TreeLocals(optionType, r, q, dt, u, d) ==
  [optionType |-> optionType, dt |-> dt, u |-> u, d |-> d,
   p |-> UpProbability(r, q, dt, u, d),
   prices |-> << >>, optionPrices |-> << >>, i |-> 0, j |-> 0,
   updates |-> 0]

TreeLocalsU(optionType, r, q, dt, u) ==
  TreeLocals(optionType, r, q, dt, u, Div(SCALE, u))

TreeLocalsDt(optionType, r, sigma, q, dt) ==
  TreeLocalsU(optionType, r, q, dt, UpFactor(sigma, dt))

\* the call, up to "let prices: number[] = []"
TreeEnter(optionType) ==
  /\ pc = "call"
  /\ tree' = TreeLocalsDt(optionType, inputs.r, inputs.sigma, inputs.q,
                          Div(inputs.T, inputs.N))
  /\ pc' = "prices"
  /\ UNCHANGED <<variant, model, inputs, results, heatmapData, strikePrices,
                 volatilities, sigmaArgs, pending>>

\* i <= N of "for (let i = 0; i <= N; i++)"
PricesLoopContinues(i, N) == Le(i * SCALE, N)

\* the locals after one pass of the loop that fills prices:
\* prices[i] = ...; i++
PricePass(locals, S, N) ==
  [locals EXCEPT
     !.prices = [k \in (DOMAIN locals.prices) \cup {locals.i} |->
                  IF k # locals.i THEN locals.prices[k]
                  ELSE TerminalPrice(S, locals.u, locals.d, N \div SCALE, locals.i)],
     !.i = Increment(locals.i)]

\* one pass of the loop that fills prices
TreePrice ==
  /\ pc = "prices"
  /\ PricesLoopContinues(tree.i, inputs.N)
  /\ tree' = PricePass(tree, inputs.S, inputs.N)
  /\ UNCHANGED <<variant, model, inputs, results, heatmapData, strikePrices,
                 volatilities, sigmaArgs, pending, pc>>

\* the end of that loop, prices.map(...) and "let j = N - 1"
TreePayoff ==
  /\ pc = "prices"
  /\ ~PricesLoopContinues(tree.i, inputs.N)
  /\ tree' = [tree EXCEPT
       !.optionPrices = [k \in DOMAIN tree.prices |->
                          Payoff(tree.optionType, tree.prices[k], inputs.K_specific)],
       !.j = Sub(inputs.N, SCALE),
       !.i = 0]
  /\ pc' = "loop"
  /\ UNCHANGED <<variant, model, inputs, results, heatmapData, strikePrices,
                 volatilities, sigmaArgs, pending>>

\* i <= j of "for (let i = 0; i <= j; i++)"
InnerLoopContinues(i, j) == Le(i * SCALE, j)

\* one pass of the inner loop's body, then i++, and j-- when the inner loop
\* is over
TreeUpdate ==
  /\ pc = "loop"
  /\ Ge(tree.j, 0)
  /\ InnerLoopContinues(tree.i, tree.j)
  /\ tree' = [tree EXCEPT
       !.optionPrices = NodeUpdate(tree.optionPrices, tree.i,
                                   Discount(inputs.r, tree.dt), tree.p),
       !.updates = tree.updates + 1,
       !.i = IF InnerLoopContinues(Increment(tree.i), tree.j)
             THEN Increment(tree.i) ELSE 0,
       !.j = IF InnerLoopContinues(Increment(tree.i), tree.j) THEN tree.j
             ELSE Sub(tree.j, SCALE)]
  /\ UNCHANGED <<variant, model, inputs, results, heatmapData, strikePrices,
                 volatilities, sigmaArgs, pending, pc>>

\* optionPrices[0], undefined for an empty array
Returned(optionPrices) ==
  IF 0 \in DOMAIN optionPrices THEN optionPrices[0] ELSE undefined

\* the end of the outer loop and "return optionPrices[0]"
TreeReturn ==
  /\ pc = "loop"
  /\ ~(Ge(tree.j, 0) /\ InnerLoopContinues(tree.i, tree.j))
  /\ results' = IF tree.optionType = "call"
                THEN [results EXCEPT !.callPrice = Returned(tree.optionPrices)]
                ELSE [results EXCEPT !.putPrice = Returned(tree.optionPrices)]
  /\ pc' = "returned"
  /\ UNCHANGED <<variant, model, inputs, heatmapData, strikePrices,
                 volatilities, sigmaArgs, pending, tree>>

NextLattice ==
  \/ \E optionType \in {"call", "put"} : TreeEnter(optionType)
  \/ TreePrice
  \/ TreePayoff
  \/ TreeUpdate
  \/ TreeReturn

SpecLattice == InitLattice /\ [][NextLattice]_vars

\* ------------------------------------------------------------------------
\* Properties

\* the error the fixed-point arithmetic may add to a price
Tol == SCALE \div 10000

\* S > 0, K > 0, T > 0, sigma > 0 and an integer N >= 1
ValidParams(in) ==
  /\ Gt(in.S, 0) /\ Gt(in.K_specific, 0) /\ Gt(in.T, 0) /\ Gt(in.sigma, 0)
  /\ Ge(in.N, SCALE) /\ in.N % SCALE = 0

\* C1: for valid parameters what the pricers themselves return is not
\* negative: callPrice and putPrice of blackScholes, and the value of
\* binomialTree for "call" and for "put", before any Math.max of a caller.
C1_PricersReturnNonNegative ==
  (pc = "returned" /\ ValidParams(inputs))
    => (Ge(results.callPrice, -Tol) /\ Ge(results.putPrice, -Tol))

\* what the selected pricer gives for (S, K, T, r, vol, q, N)
PricerCall(m, in, K, vol) ==
  IF m = "Black-Scholes" THEN blackScholes(in.S, K, in.T, in.r, vol, in.q).callPrice
  ELSE binomialTree(in.S, K, in.T, in.r, vol, in.q, in.N, "call")

PricerPut(m, in, K, vol) ==
  IF m = "Black-Scholes" THEN blackScholes(in.S, K, in.T, in.r, vol, in.q).putPrice
  ELSE binomialTree(in.S, K, in.T, in.r, vol, in.q, in.N, "put")

\* callData and putData have one row per volatility and one entry per strike
GridShape ==
  /\ Len(heatmapData.callData) = Len(volatilities)
  /\ Len(heatmapData.putData) = Len(volatilities)
  /\ \A i \in 1..Len(volatilities) :
       /\ Len(heatmapData.callData[i]) = Len(strikePrices)
       /\ Len(heatmapData.putData[i]) = Len(strikePrices)

\* C2 (as stated): generateHeatmapData returns volatilities.length rows of
\* strikePrices.length entries, and entry [i][j] is the price the selected
\* pricer gives for (S, strikePrices[j], T, r, volatilities[i], q, N).
C2_EntriesArePricerPrices ==
  pc = "returned" =>
    /\ GridShape
    /\ \A i \in 1..Len(volatilities) : \A j \in 1..Len(strikePrices) :
         /\ heatmapData.callData[i][j] =
              PricerCall(model, inputs, strikePrices[j], volatilities[i])
         /\ heatmapData.putData[i][j] =
              PricerPut(model, inputs, strikePrices[j], volatilities[i])

\* C2 (amended): the shape is as stated; in v1 entry [i][j] is the pricer's
\* price at (strikePrices[j], volatilities[i]); in v2 it is
\* max(price, 0) of the pricer's price at (strikePrices[j], max(volatilities[i], 0)).
C2_EntriesAreFlooredPricerPrices ==
  pc = "returned" =>
    /\ GridShape
    /\ \A i \in 1..Len(volatilities) : \A j \in 1..Len(strikePrices) :
         IF variant = "v2"
         THEN /\ heatmapData.callData[i][j] =
                   MathMax(PricerCall(model, inputs, strikePrices[j],
                                      MathMax(volatilities[i], 0)), 0)
              /\ heatmapData.putData[i][j] =
                   MathMax(PricerPut(model, inputs, strikePrices[j],
                                     MathMax(volatilities[i], 0)), 0)
         ELSE /\ heatmapData.callData[i][j] =
                   PricerCall(model, inputs, strikePrices[j], volatilities[i])
              /\ heatmapData.putData[i][j] =
                   PricerPut(model, inputs, strikePrices[j], volatilities[i])

\* a v2 grid of two rows and one column whose put entry was floored at 0
C2_FlooredEntryReturned ==
  /\ pc = "returned"
  /\ variant = "v2"
  /\ Len(volatilities) = 2 /\ Len(strikePrices) = 1
  /\ heatmapData.putData[2][1] = 0
  /\ Lt(PricerPut(model, inputs, strikePrices[1], volatilities[2]), -Tol)

\* x === y of two numbers
SameNumber(x, y) == ~IsNaN(x) /\ ~IsNaN(y) /\ x = y

\* K_specific is element j of the strike axis and sigma element i of the
\* volatility axis
OnGrid(i, j) ==
  /\ SameNumber(inputs.K_specific, strikePrices[j])
  /\ SameNumber(inputs.sigma, volatilities[i])

InvalidRequest(m, in, K, vol) ==
  \/ Le(in.S, 0) \/ Le(K, 0) \/ Le(in.T, 0) \/ Lt(vol, 0)
  \/ (m = "Binomial Tree" /\ Lt(in.N, SCALE))

\* C4: for a request with an invalid parameter no price is produced or
\* stored: neither field of the point result is a number when the point
\* request is invalid, and no grid entry is a number where the cell's request
\* is invalid.
C4_InvalidRequestStoresNoPrice ==
  pc = "idle" =>
    /\ InvalidRequest(model, inputs, inputs.K_specific, inputs.sigma) =>
         (~IsFinite(results.callPrice) /\ ~IsFinite(results.putPrice))
    /\ \A i \in 1..Len(volatilities) : \A j \in 1..Len(strikePrices) :
         InvalidRequest(model, inputs, strikePrices[j], volatilities[i]) =>
           (/\ ~IsFinite(heatmapData.callData[i][j])
            /\ ~IsFinite(heatmapData.putData[i][j]))

\* max(0, S e^(-qT) - K e^(-rT)) and max(0, K e^(-rT) - S e^(-qT))
DiscountedIntrinsic(in) ==
  [callPrice |-> MathMax(0, Sub(Mul(in.S, MathExp(Mul(Neg(in.q), in.T))),
                                Mul(in.K_specific, MathExp(Mul(Neg(in.r), in.T))))),
   putPrice |-> MathMax(0, Sub(Mul(in.K_specific, MathExp(Mul(Neg(in.r), in.T))),
                               Mul(in.S, MathExp(Mul(Neg(in.q), in.T)))))]

Near(x, y) == IsFinite(x) /\ IsFinite(y) /\ Abs(x - y) <= Tol

\* C5: with sigma = 0, T > 0 and the other parameters valid, blackScholes and
\* binomialTree both return the discounted intrinsic value of the call and of
\* the put, and neither returns NaN or Infinity.
C5_ZeroVolatilityIsDiscountedIntrinsic ==
  (/\ pc = "returned"
   /\ inputs.sigma = 0
   /\ ValidParams([inputs EXCEPT !.sigma = SCALE]))
    => (/\ Near(results.callPrice, DiscountedIntrinsic(inputs).callPrice)
        /\ Near(results.putPrice, DiscountedIntrinsic(inputs).putPrice))

\* C6: after the effect that follows any sequence of events, every entry of
\* callData and putData and both fields of the point result are finite
\* numbers.
C6_OnlyFiniteNumbersStored ==
  pc = "idle" =>
    /\ IsFinite(results.callPrice) /\ IsFinite(results.putPrice)
    /\ \A i \in 1..Len(heatmapData.callData) :
         \A j \in 1..Len(heatmapData.callData[i]) :
           IsFinite(heatmapData.callData[i][j])
    /\ \A i \in 1..Len(heatmapData.putData) :
         \A j \in 1..Len(heatmapData.putData[i]) :
           IsFinite(heatmapData.putData[i][j])

\* K_min + j (K_max - K_min) / 9
ExactStrike(in, j) ==
  Add(in.K_min, Div(Mul(j * SCALE, Sub(in.K_max, in.K_min)), (AxisLength - 1) * SCALE))

\* C7 (as stated): the strike axis the grid is priced at is the 10 values
\* K_min + j (K_max - K_min) / 9, j = 0..9, themselves and not rounded.
C7_StrikeAxisExact ==
  pc = "idle" =>
    /\ Len(strikePrices) = AxisLength
    /\ \A j \in 0..(AxisLength - 1) : strikePrices[j + 1] = ExactStrike(inputs, j)

\* C7 (amended): the strike axis is 10 values; for finite K_min and K_max
\* element j is a whole number of hundredths that differs from
\* K_min + j (K_max - K_min) / 9 by at most 0.005 (the value rounded to two
\* decimals), and NaN otherwise.  (The comparison is made on 9 times the
\* values, with the error of the fixed-point division allowed for.)
C7_StrikeAxisRoundedToCents ==
  pc = "idle" =>
    /\ Len(strikePrices) = AxisLength
    /\ \A j \in 0..(AxisLength - 1) :
         IF IsFinite(inputs.K_min) /\ IsFinite(inputs.K_max)
         THEN /\ IsFinite(strikePrices[j + 1])
              /\ strikePrices[j + 1] % (SCALE \div 100) = 0
              /\ Abs((AxisLength - 1) * strikePrices[j + 1]
                     - ((AxisLength - 1) * inputs.K_min
                        + j * (inputs.K_max - inputs.K_min)))
                   <= (AxisLength - 1) * (SCALE \div 200) + (AxisLength - 1)
         ELSE IsNaN(strikePrices[j + 1])

\* the effect has run on K_min = 80, K_max = 120, and element 1 of the axis
\* is 84.44, not 84.444444
C7_RoundedStrikeOnAxis ==
  /\ pc = "idle"
  /\ inputs.K_min = Lit(8000) /\ inputs.K_max = Lit(12000)
  /\ strikePrices[2] = Lit(8444)
  /\ strikePrices[2] # ExactStrike(inputs, 1)

\* C8: the volatility axis is the 10 values max(sigma - 0.1 + i * 0.02, 0),
\* i = 0..9, in descending order, and in both variants every volatility a
\* pricer is invoked with (grid cells and point price) is >= 0.
C8_VolatilitiesFlooredAtZero ==
  pc = "idle" =>
    /\ Len(volatilities) = AxisLength
    /\ \A k \in 1..AxisLength :
         volatilities[k] =
           MathMax(Add(Sub(inputs.sigma, Lit(10)),
                       Mul((AxisLength - k) * SCALE, Lit(2))), 0)
    /\ \A s \in sigmaArgs : Ge(s, 0)

NoResults == [callPrice |-> undefined, putPrice |-> undefined]

\* C9: after the effect has run, the point result and heatmapData are what
\* the effect computes from the current model and inputs alone, whatever was
\* stored before, and the axes handed to generateHeatmapData are still the
\* ones built from the inputs.
C9_ResultsDependOnCurrentInputsOnly ==
  pc = "idle" =>
    /\ results = IF variant = "v2" THEN PointV2(model, inputs, NoResults)
                 ELSE PointV1(model, inputs, NoResults)
    /\ strikePrices = MapNumber(StrikeLabels(inputs))
    /\ volatilities = MapNumber(VolLabels(variant, inputs))
    /\ heatmapData = generateHeatmapData(variant, model, inputs, strikePrices,
                                         volatilities)

\* the effect has run on the Binomial Tree model with S = 0, a state that
\* "select Binomial Tree, type S" and "type S, select Binomial Tree" both end in
C9_SameEndOfTwoSequences ==
  /\ pc = "idle"
  /\ model = "Binomial Tree"
  /\ inputs = [InitialInputs EXCEPT !.S = 0]
  /\ results.callPrice = 0 /\ IsFinite(results.putPrice) /\ results.putPrice > 0

\* C10: with the cells evaluated in any order, each result placed at its
\* position [i][j], the matrices collected are those of the nested loop.
C10_AnyOrderSweepIsNestedLoop ==
  pc = "collected" =>
    heatmapData = generateHeatmapData(variant, model, inputs, strikePrices,
                                      volatilities)

\* a sweep of a 2 x 2 grid has been collected, and its entries differ
C10_GridCollected ==
  /\ pc = "collected"
  /\ Len(volatilities) = 2 /\ Len(strikePrices) = 2
  /\ IsFinite(heatmapData.callData[1][1])
  /\ heatmapData.callData[1][1] # heatmapData.callData[1][2]
  /\ heatmapData.callData[1][1] # heatmapData.callData[2][1]

\* S e^(-qT) - K e^(-rT)
Forward(in) ==
  Sub(Mul(in.S, MathExp(Mul(Neg(in.q), in.T))),
      Mul(in.K_specific, MathExp(Mul(Neg(in.r), in.T))))

\* The fixed-point arithmetic rounds every quotient and product to 1e-6, so
\* normalCdf(x) + normalCdf(-x) is 1 up to one unit of 1e-6, and the parity
\* holds up to that unit times S e^(-qT) + K e^(-rT), and four roundings.
ParityTol(in) == (in.S + in.K_specific) \div SCALE + 4

\* d1 and d2 of blackScholes
D1(in) ==
  Div(Add(MathLog(Div(in.S, in.K_specific)),
          Mul(Add(Sub(in.r, in.q), Mul(Mul(SCALE \div 2, in.sigma), in.sigma)), in.T)),
      Mul(in.sigma, MathSqrt(in.T)))

D2(in) == Sub(D1(in), Mul(in.sigma, MathSqrt(in.T)))

DefaultArgs(in) ==
  /\ in.S = Lit(10042) /\ in.K_specific = Lit(9345) /\ in.T = Lit(100)
  /\ in.r = Lit(5) /\ in.sigma = Lit(20) /\ in.q = Lit(0)

\* C12 (as stated): for the default inputs blackScholes returns a call price
\* of 13.68 and a put price of 2.25, to two decimals.
C12_DefaultPricesAsStated ==
  (pc = "returned" /\ model = "Black-Scholes" /\ DefaultArgs(inputs)) =>
    /\ toFixed2(results.callPrice) = Digits(FALSE, 1368)
    /\ toFixed2(results.putPrice) = Digits(FALSE, 225)

\* C12 (amended): for the default inputs blackScholes returns a call price
\* of 14.66 and a put price of 3.13, to two decimals.
C12_DefaultPrices ==
  (pc = "returned" /\ model = "Black-Scholes" /\ DefaultArgs(inputs)) =>
    /\ toFixed2(results.callPrice) = Digits(FALSE, 1466)
    /\ toFixed2(results.putPrice) = Digits(FALSE, 313)

\* blackScholes has returned on the default inputs
C12_DefaultPriced ==
  /\ pc = "returned" /\ model = "Black-Scholes" /\ DefaultArgs(inputs)
  /\ IsFinite(results.callPrice) /\ IsFinite(results.putPrice)


\* the call has computed p
HasP == pc \in {"prices", "loop", "returned"} /\ tree # NoTree

\* C13: for valid parameters the up probability p that binomialTree uses
\* in the backward induction lies in [0, 1].
C13_UpProbabilityInUnitInterval ==
  (HasP /\ ValidParams(inputs)) => Le(0, tree.p) /\ Le(tree.p, SCALE)


\* the steps N of the call in progress, a whole number
Steps == inputs.N \div SCALE

\* V_j of the two-layer recurrence out of the layer above it, V_(j+1)
LayerBelow(above, j) ==
  [i \in 0..j |->
     Mul(MathExp(Mul(Neg(inputs.r), tree.dt)),
         Add(Mul(tree.p, above[i]), Mul(Sub(SCALE, tree.p), above[i + 1])))]

\* V_N[i] = payoff(S u^(N-i) d^i)
TerminalLayer ==
  [i \in 0..Steps |->
     Payoff(tree.optionType,
            Mul(Mul(inputs.S, MathPow(tree.u, Steps - i)), MathPow(tree.d, i)),
            inputs.K_specific)]

RECURSIVE V(_)
V(j) == IF j >= Steps THEN TerminalLayer ELSE LayerBelow(V(j + 1), j)

\* the step of the outer loop in progress, -1 when the loop is over
StepJ == IF IsFinite(tree.j) THEN tree.j \div SCALE ELSE -1

\* the layer that slot k holds while step StepJ has overwritten slots 0..i-1:
\* V_j below i, and above it the layer of the last step that reached k
LayerOfSlot(k) ==
  IF k < tree.i THEN StepJ ELSE IF k > StepJ + 1 THEN k ELSE StepJ + 1

\* C14: the in-place backward induction computes the two-layer recurrence.
\* During step j the slots already overwritten hold V_j and every slot at or
\* above i, the two that the next update reads among them, still holds the
\* layer of the step before, so after step j optionPrices[i] = V_j[i] for
\* i = 0..j; the value returned is V_0[0].
C14_InPlaceInductionIsTwoLayerRecurrence ==
  /\ (pc = "loop" /\ Ge(inputs.N, 0))
       => /\ DOMAIN tree.optionPrices = 0..Steps
          /\ \A k \in 0..Steps : tree.optionPrices[k] = V(LayerOfSlot(k))[k]
  /\ (pc = "returned" /\ Ge(inputs.N, 0))
       => (IF tree.optionType = "call" THEN results.callPrice
           ELSE results.putPrice) = V(0)[0]

\* step 1 of a two-step put in progress: slot 0 overwritten, slot 1 not yet
C14_MidStep ==
  /\ pc = "loop" /\ ValidParams(inputs) /\ Steps = 2
  /\ tree.optionType = "put"
  /\ tree.j = SCALE /\ tree.i = 1
  /\ Gt(tree.optionPrices[0], 0)
  /\ tree.optionPrices[0] # TerminalLayer[0]
  /\ tree.optionPrices[1] = TerminalLayer[1]
  /\ Gt(tree.optionPrices[2], tree.optionPrices[1])


\* payoff(x) = max(0, x - K) for a call and max(0, K - x) for a put
OneStepPayoff(optionType, x, K) ==
  IF optionType = "call" THEN MathMax(0, Sub(x, K)) ELSE MathMax(0, Sub(K, x))

\* e^(-rT) (p payoff(S u) + (1 - p) payoff(S d))
OneStepValue(in, optionType, u, d, p) ==
  Mul(MathExp(Mul(Neg(in.r), in.T)),
      Add(Mul(p, OneStepPayoff(optionType, Mul(in.S, u), in.K_specific)),
          Mul(Sub(SCALE, p), OneStepPayoff(optionType, Mul(in.S, d), in.K_specific))))

\* p = (e^((r-q)T) - d) / (u - d)
OneStepP(in, optionType, u, d) ==
  OneStepValue(in, optionType, u, d,
               Div(Sub(MathExp(Mul(Sub(in.r, in.q), in.T)), d), Sub(u, d)))

\* d = 1 / u
OneStepD(in, optionType, u) == OneStepP(in, optionType, u, Div(SCALE, u))

\* u = e^(sigma sqrt(T))
OneStep(in, optionType) ==
  OneStepD(in, optionType, MathExp(Mul(in.sigma, MathSqrt(in.T))))

\* C15: with N = 1 binomialTree returns exactly the one-step binomial value
\* e^(-rT) (p payoff(S u) + (1 - p) payoff(S d)), for a call and for a put.
C15_OneStepLattice ==
  (pc = "returned" /\ model = "Binomial Tree" /\ inputs.N = SCALE)
    => /\ results.callPrice = OneStep(inputs, "call")
       /\ results.putPrice = OneStep(inputs, "put")

\* a one-step call and put with both final nodes on different sides of K
C15_OneStepPriced ==
  /\ pc = "returned" /\ model = "Binomial Tree" /\ inputs.N = SCALE
  /\ ValidParams(inputs)
  /\ Gt(results.callPrice, SCALE) /\ Gt(results.putPrice, SCALE)


\* the terminal nodes built so far
TerminalNodes == Cardinality(DOMAIN tree.prices)

\* N is a whole number >= 1
WholeSteps == Ge(inputs.N, SCALE) /\ inputs.N % SCALE = 0

\* for a whole N >= 1 a call that returns has built N + 1 terminal nodes and
\* made N (N + 1) / 2 node updates
NodeAndUpdateCounts ==
  (pc = "returned" /\ WholeSteps)
    => /\ TerminalNodes = Steps + 1
       /\ tree.updates = (Steps * (Steps + 1)) \div 2
       /\ Returned(tree.optionPrices) # undefined

\* the loop that fills prices goes on and its next pass leaves every local
\* of the call as it is: the call is in this state for ever
Spinning ==
  /\ pc = "prices"
  /\ PricesLoopContinues(tree.i, inputs.N)
  /\ PricePass(tree, inputs.S, inputs.N) = tree

\* C16: for every step count N that the form can store binomialTree
\* terminates (it never comes to a state that the next pass of a loop
\* leaves unchanged, from which it cannot return), and for a whole N >= 1
\* it has built N + 1 terminal nodes and made N (N + 1) / 2 node updates
\* when it returns optionPrices[0].
C16_TerminatesWithNodeAndUpdateCounts ==
  ~Spinning /\ NodeAndUpdateCounts


\* the effect has computed the stored grid at least once
GridComputed == strikePrices # << >> /\ volatilities # << >>

\* C17: in every rendered state the x and y label sequences handed to the
\* heatmap are the strike and volatility axes from which the stored
\* heatmapData was computed (same length, order and values), the render
\* after an input change and before the effect included.
C17_LabelsAreAxesOfStoredGrid ==
  GridComputed
    => /\ Len(PlotX(inputs)) = Len(strikePrices)
       /\ Len(PlotY(variant, inputs)) = Len(volatilities)
       /\ MapNumber(PlotX(inputs)) = strikePrices
       /\ MapNumber(PlotY(variant, inputs)) = volatilities


\* every volatility replaced by max(vol, 0)
FlooredAxis(vols) == [k \in 1..Len(vols) |-> MathMax(vols[k], 0)]

\* every entry replaced by max(entry, 0)
FlooredRows(rows) ==
  [i \in 1..Len(rows) |-> [j \in 1..Len(rows[i]) |-> MathMax(rows[i][j], 0)]]

FlooredGrid(data) ==
  [callData |-> FlooredRows(data.callData), putData |-> FlooredRows(data.putData)]

NonNegativeRows(rows) ==
  \A i \in 1..Len(rows) : \A j \in 1..Len(rows[i]) : Ge(rows[i][j], 0)

NonNegativeGrid(data) ==
  NonNegativeRows(data.callData) /\ NonNegativeRows(data.putData)

NonNegativeAxis(vols) == \A k \in 1..Len(vols) : Ge(vols[k], 0)

\* the two engines on the same model, inputs and axes: v2's grid is v1's on
\* the floored axis, floored; they are the same grid when no flooring applies
SameEngineUpToFlooring(gridV2, gridV1, gridV1OnFlooredAxis, vols) ==
  /\ gridV2 = FlooredGrid(gridV1OnFlooredAxis)
  /\ (NonNegativeAxis(vols) /\ NonNegativeGrid(gridV1)) => gridV2 = gridV1

\* the point results of the two effects for the same model and inputs
SamePointResults(pointV2, pointV1, vols, gridV1) ==
  (/\ NonNegativeAxis(vols) /\ NonNegativeGrid(gridV1)
   /\ Ge(pointV1.callPrice, 0) /\ Ge(pointV1.putPrice, 0))
    => pointV2 = pointV1

\* C18: for the model, inputs and axes of the effect's call, v2's
\* generateHeatmapData returns v1's result computed with every volatility
\* replaced by max(vol, 0) and every entry then replaced by max(entry, 0);
\* when every axis volatility and every v1 price is >= 0 the two grids and
\* the two point results are identical.
C18_SameEngineUpToFlooring ==
  (pc = "idle" /\ GridComputed)
    => /\ SameEngineUpToFlooring(
            generateHeatmapData("v2", model, inputs, strikePrices, volatilities),
            generateHeatmapData("v1", model, inputs, strikePrices, volatilities),
            generateHeatmapData("v1", model, inputs, strikePrices,
                                FlooredAxis(volatilities)),
            volatilities)
       /\ SamePointResults(
            PointV2(model, inputs, results), PointV1(model, inputs, results),
            volatilities,
            generateHeatmapData("v1", model, inputs, strikePrices, volatilities))

\* v1 has swept an axis with a negative volatility and stored a negative
\* price and a positive one
C18_NegativeVolatilitySwept ==
  /\ pc = "idle" /\ variant = "v1" /\ GridComputed
  /\ \E k \in 1..Len(volatilities) : Lt(volatilities[k], 0)
  /\ ~NonNegativeGrid(heatmapData)
  /\ \E i \in 1..Len(heatmapData.callData) :
       \E j \in 1..Len(heatmapData.callData[i]) : Gt(heatmapData.callData[i][j], 0)

=============================================================================
